---------------------------- MODULE Spec2Model ----------------------------
(***************************************************************************)
(* Model of gitlab_jobs_logs_downloader.py: one sequential process that    *)
(* loads its configuration, resolves the project, lists the jobs of a      *)
(* pipeline page by page, and runs every job through the skip gate, the    *)
(* running-wait loop, the artifact-wait loop and the trace download.       *)
(*                                                                         *)
(* The GitLab server and the filesystem are the environment: every HTTP    *)
(* response and every outcome of open() is chosen nondeterministically.    *)
(* Time is counted in whole seconds; it advances only while the process    *)
(* sleeps or waits for a response.                                         *)
(***************************************************************************)
EXTENDS Integers, Sequences, FiniteSets, TLC

(* ------------------------------ bounds -------------------------------- *)

\* Job ids the server may list: 1..MaxJobId.
MaxJobId == 2
\* Longest chain of job-list pages the server serves.
MaxPages == 2
\* Re-fetches of one wait loop are counted up to MaxCount.
MaxCount == 3
\* Longest time (seconds) a request or a sleep overruns.
MaxLatency == 1

(* --------------------------- environment ------------------------------ *)

JobIds == 1..MaxJobId

\* os.environ values of the three timing variables (strings, parsed by int()).
INTERVAL_ENV == {"-1", "0", "1", "ten"}
RUNNING_TIMEOUT_ENV == {"0", "1"}
END_TIMEOUT_ENV == {"0", "2"}

\* int(): whether the text parses (otherwise ValueError), and the parsed value.
IsInt(s) == s \in {"-1", "0", "1", "2"}
ParseInt(s) ==
    CASE s = "-1" -> -1
      [] s = "0" -> 0
      [] s = "1" -> 1
      [] s = "2" -> 2

MANDATORY_ENV_VARS == <<"CI_PROJECT_ID", "CI_PIPELINE_ID", "CI_API_V4_URL", "CI_API_TOKEN">>

MandatoryNames == {MANDATORY_ENV_VARS[i] : i \in 1..Len(MANDATORY_ENV_VARS)}

\* Job statuses the server reports (an open enum; these are the ones used).
Statuses == {"pending", "manual", "scheduled", "skipped", "created",
             "running", "success", "failed"}

\* The statuses a re-fetch reports: "running", both finished ones, and one
\* of those the skip list names.
RefetchStatuses == {"skipped", "running", "success", "failed"}

\* file_type values of the artifacts of a job.
FileTypes == {"trace", "archive"}

ProjectNames == {"My Proj!"}
RawStages == {"Test Stage"}
RawNames == {"Build Unit", "build-unit", "test"}
TraceBodies == {"log-a", "log-b"}

\* rel values of the entries of a Link header.
Rels == {"next", "first", "last"}

None == "None"
\* A url of the job-list endpoint is <<page number>>; no url is <<>>.
PageUrl(k) == <<k>>
NoUrl == <<>>
\* A response without a Link header (or with an empty one).
NoLinkHeader == <<>>
NoFile == "NoFile"

(* ---------------------------- pure functions -------------------------- *)

\* slugify(): lowercase, ASCII, runs of other characters become one "-".
Slugify(s) ==
    CASE s = "My Proj!" -> "my-proj"
      [] s = "Test Stage" -> "test-stage"
      [] s = "Build Unit" -> "build-unit"
      [] s = "build-unit" -> "build-unit"
      [] s = "test" -> "test"
      [] OTHER -> s

GITLAB_JOBS_LOGS_DOWNLOADER_FILENAME_DELIMITER == "#"

\* The filename download_logs builds, kept as the tuple of its parts.
Filename(project_name, job_stage, job_name) ==
    <<Slugify(project_name), GITLAB_JOBS_LOGS_DOWNLOADER_FILENAME_DELIMITER,
      Slugify(job_stage), GITLAB_JOBS_LOGS_DOWNLOADER_FILENAME_DELIMITER,
      Slugify(job_name), ".log">>

Filenames == {Filename(p, s, n) : p \in ProjectNames, s \in RawStages, n \in RawNames}

\* A mutant of ExtractNextPageUrl: only the first entry of the header is read.
RECURSIVE ExtractNextPageUrl(_)
ExtractNextPageUrlFirstOnly(link_header) ==
    IF link_header # <<>> /\ Head(link_header).rel = "next"
    THEN Head(link_header).url
    ELSE NoUrl

\* extract_next_page_url: the url of the first entry whose rel is "next".
\* link_header is the header split on ", ", each entry split into url and rel.
ExtractNextPageUrl(link_header) ==
    IF link_header = <<>> THEN NoUrl
    ELSE IF Head(link_header).rel = "next" THEN Head(link_header).url
    ELSE ExtractNextPageUrl(Tail(link_header))

\* Insertion of x into an ascending sequence, after the entries equal to it.
RECURSIVE Insert(_, _)
Insert(x, s) ==
    IF s = <<>> THEN <<x>>
    ELSE IF x < Head(s) THEN <<x>> \o s
    ELSE <<Head(s)>> \o Insert(x, Tail(s))

RECURSIVE SortById(_)
\* A mutant of SortById: the list is returned in the order received.
SortByIdUnsorted(jobs) == jobs

\* sorted(pipeline_jobs, key=lambda x: x["id"]); a job summary is its id.
SortById(jobs) ==
    IF jobs = <<>> THEN <<>>
    ELSE Insert(jobs[Len(jobs)], SortById(SubSeq(jobs, 1, Len(jobs) - 1)))

Range(s) == {s[i] : i \in 1..Len(s)}

Min(a, b) == IF a < b THEN a ELSE b


\* A mutant of HasTrace: any artifact counts.
HasTraceAnyArtifact(job_artifacts) == job_artifacts # {}

\* any(artifact.get("file_type") == "trace" for artifact in job_artifacts);
\* the artifact list is kept as the set of its file_type values.
HasTrace(job_artifacts) == "trace" \in job_artifacts

\* A mutant of SKIP_STATUSES: "created" is missing from the list.
SKIP_STATUSES_WithoutCreated == {"pending", "manual", "scheduled", "skipped"}

\* The status list of the skip gate.
SKIP_STATUSES == {"pending", "manual", "scheduled", "skipped", "created"}

(* ------------------------------ logging ------------------------------- *)

\* Values CI_API_TOKEN may have; no other value of the environment and no
\* API response is one of them.
Tokens == {"glpat-A", "glpat-B"}

\* os.environ of a run whose CI_API_TOKEN is token.
Environ(token) ==
    [var \in MandatoryNames |->
        CASE var = "CI_PROJECT_ID" -> "42"
          [] var = "CI_PIPELINE_ID" -> "7"
          [] var = "CI_API_V4_URL" -> "https://gitlab.example.com/api/v4"
          [] var = "CI_API_TOKEN" -> token]

\* The values of the other variables of the environment that are logged.
GITLAB_JOBS_LOGS_DOWNLOADER_DIRECTORY == "/tmp"
GITLAB_JOBS_LOGS_DOWNLOADER_LOGLEVEL(valid) == IF valid THEN "INFO" ELSE "NOISY"

\* A log record: level, format string, arguments.  An argument read from the
\* environment is its value; one taken from an API response or computed from
\* one is named by its expression (two runs compared get the same responses).
Record(level, format, args) == [level |-> level, format |-> format, args |-> args]
JobArgs == <<"job_name", "job_stage", "self.project_name">>

\* A mutant of LoggedEnvVars: the whole list.
LoggedEnvVarsAll == MANDATORY_ENV_VARS

\* main: MANDATORY_ENV_VARS[:-1], the variables whose values are logged.
LoggedEnvVars == SubSeq(MANDATORY_ENV_VARS, 1, Len(MANDATORY_ENV_VARS) - 1)

\* Module level: the record of the first failing step, none when all pass.
ConfigurationLog(token, interval_ok, running_ok, ending_ok, tz_ok, loglevel_ok, present) ==
    IF ~interval_ok THEN
        <<Record("ERROR", "GITLAB_JOBS_LOGS_DOWNLOADER_JOB_CHECK_INTERVAL_SECONDS must be int !", <<>>)>>
    ELSE IF ~running_ok THEN
        <<Record("ERROR", "GITLAB_JOBS_LOGS_DOWNLOADER_RUNNING_JOB_TIMEOUT_SECONDS must be int !", <<>>)>>
    ELSE IF ~ending_ok THEN
        <<Record("ERROR", "GITLAB_JOBS_LOGS_DOWNLOADER_END_JOB_TIMEOUT_SECONDS must be int !", <<>>)>>
    ELSE IF ~tz_ok THEN
        <<Record("ERROR", "TZ invalid : %s !",
                 <<GITLAB_JOBS_LOGS_DOWNLOADER_LOGLEVEL(loglevel_ok)>>)>>
    ELSE IF ~loglevel_ok THEN
        <<Record("ERROR", "GITLAB_JOBS_LOGS_DOWNLOADER_LOGLEVEL invalid !", <<>>)>>
    ELSE IF \E i \in 1..Len(MANDATORY_ENV_VARS) : MANDATORY_ENV_VARS[i] \notin present THEN
        LET first == CHOOSE i \in 1..Len(MANDATORY_ENV_VARS) :
                        /\ MANDATORY_ENV_VARS[i] \notin present
                        /\ \A j \in 1..(i - 1) : MANDATORY_ENV_VARS[j] \in present
        IN <<Record("CRITICAL", "%s environment variable must be set !",
                    <<MANDATORY_ENV_VARS[first]>>)>>
    ELSE <<>>

\* main, before the downloader is constructed.
MainLog(token) ==
    <<Record("INFO", "Starting Gitlab Jobs Logs Downloader", <<>>)>>
    \o [i \in 1..Len(LoggedEnvVars) |->
          Record("INFO", "%s=%s", <<LoggedEnvVars[i], Environ(token)[LoggedEnvVars[i]]>>)]
    \o <<Record("INFO", "GITLAB_JOBS_LOGS_DOWNLOADER_DIRECTORY=%s",
                <<GITLAB_JOBS_LOGS_DOWNLOADER_DIRECTORY>>)>>

\* get_project, and __init__ after it.
GetProjectLog(token, status_code) ==
    IF status_code # 200
    THEN <<Record("ERROR", "UNKNOWN GITLAB PROJECT ID %s !",
                  <<Environ(token)["CI_PROJECT_ID"]>>)>>
    ELSE <<Record("DEBUG", "PROJECT=%s", <<"project.json()">>),
           Record("INFO", "GITLAB_PROJECT_NAME=%s", <<"self.project.json()[name]">>)>>

\* get_pipeline_jobs, one turn of its loop, and __init__ after its return.
GetPipelineJobsLog(token, status_code, last) ==
    IF status_code # 200
    THEN <<Record("ERROR", "UNKNOWN GITLAB PIPELINE ID %s FOR %s",
                  <<Environ(token)["CI_PIPELINE_ID"], "self.project_name">>)>>
    ELSE IF last
    THEN <<Record("DEBUG", "JOBS=%s", <<"pipeline_jobs">>),
           Record("INFO", "RETRIEVING %s JOBS", <<"len(self.pipeline_jobs)">>)>>
    ELSE <<>>

\* get_job.
GetJobLog(token, status_code) ==
    IF status_code # 200 THEN <<>>
    ELSE <<Record("DEBUG", "JOB=%s", <<"response.json()">>)>>

\* download_pipeline_jobs_logs: the skip gate.
SkipLog(token) ==
    <<Record("INFO", "JOB=%s STAGE=%s PROJECT=%s STATUS=%s SKIP !",
             JobArgs \o <<"job_status">>)>>

\* check_running_timeout and check_end_timeout.
WaitLog(token, level, format) == <<Record(level, format, JobArgs)>>

\* download_logs.
DownloadLogsLog(token, status_code, result) ==
    <<Record("INFO", "DOWNLOADING LOGS FOR JOB=%s STAGE=%s PROJECT=%s", JobArgs)>>
    \o (IF status_code # 200 THEN
            <<Record("ERROR", "UNABLE TO DOWNLOAD LOGS FOR JOB=%s STAGE=%s PROJECT=%s",
                     JobArgs)>>
        ELSE IF result = "ok" THEN
            <<Record("INFO", "DESTINATION=%s/%s",
                     <<GITLAB_JOBS_LOGS_DOWNLOADER_DIRECTORY, "filename">>)>>
        ELSE IF result = "FileNotFoundError" THEN
            <<Record("CRITICAL", "NO SUCH DIRECTORY GITLAB_JOBS_LOGS_DOWNLOADER_DIRECTORY=%s",
                     <<GITLAB_JOBS_LOGS_DOWNLOADER_DIRECTORY>>)>>
        ELSE IF result = "PermissionError" THEN
            <<Record("CRITICAL", "PERMISSION DENIED ON GITLAB_JOBS_LOGS_DOWNLOADER_DIRECTORY=%s",
                     <<GITLAB_JOBS_LOGS_DOWNLOADER_DIRECTORY>>)>>
        ELSE <<>>)

(* ------------------------------- state -------------------------------- *)

VARIABLES
    pc,                 \* where the process is
    exit_code,          \* the process exit status, once pc = "exit"
    exit_cause,         \* what ended the process
    JOB_CHECK_INTERVAL_SECONDS,
    RUNNING_JOB_TIMEOUT_SECONDS,
    END_JOB_TIMEOUT_SECONDS,
    project_name,       \* self.project_name
    project_status_code, \* status code of the project response (0: none yet)
    url,                \* get_pipeline_jobs: the url to request
    pipeline_jobs,      \* the accumulated, then sorted, job list
    job_index,          \* position of the for loop in self.pipeline_jobs
    job_id, job_name, job_stage, job_status, job_artifacts,
    elapsed,            \* datetime.now() - init of the wait loop in progress
    files,              \* the output directory: filename -> content
    \* What the run did and saw (history).  Of the whole run:
    page_requests,      \* number of job-list GETs get_pipeline_jobs issued
                        \* (kept until the first job is taken in hand)
    page_status_code,   \* status code of the last job-list response (0: none)
    served,             \* job ids the server put on the pages it served
    next_offered,       \* the last page served carried a rel="next" link
    written,            \* jobs whose log file was written
    traces,             \* the 200 trace responses: job, file name built, content
    clean,              \* every job so far was settled at its first fetch
    log,                \* the records the last step emitted, for each token
    \* Of the runs of the tool on one output directory:
    run,                \* 1 for the first run, 2 for the second
    first_run,          \* run 1: its configuration, number of jobs, files left
    \* Of the job in hand (job_id), from its first fetch until the next job's:
    kind,               \* what its first job-detail response showed
    latest,             \* what its latest job-detail response showed (until
                        \* the job is left)
    detail_non200,      \* one of its job-detail GETs returned non-200
    slept,              \* a sleep was performed for it
    refetched,          \* its detail was fetched again in a wait loop
    status_refetches,   \* number of re-fetches of running-wait for it
    artifact_refetches, \* number of re-fetches of artifact-wait for it (until
                        \* the job is left)
    unsettled,          \* one of its re-fetches did not show (success, trace)
    artifact_wait,      \* it entered artifact-wait
    trace_requested,    \* a trace GET was issued for it
    trace_non200,       \* its trace GET returned non-200
    write_result,       \* what opening and writing its file did
    outcome             \* how its processing ended

config == <<JOB_CHECK_INTERVAL_SECONDS, RUNNING_JOB_TIMEOUT_SECONDS,
            END_JOB_TIMEOUT_SECONDS>>
locals == <<job_name, job_stage, job_status, job_artifacts, elapsed>>
listing == <<url, pipeline_jobs, page_requests, page_status_code, served,
             next_offered>>
in_hand == <<kind, latest, detail_non200, slept, refetched, status_refetches,
             artifact_refetches, unsettled, artifact_wait, trace_requested, trace_non200,
             write_result, outcome>>
project == <<project_name, project_status_code>>
runs == <<run, first_run>>
vars == <<pc, exit_code, exit_cause, config, project, listing, job_index,
          job_id, locals, files, written, traces, clean, in_hand, runs, log>>

StatusCodes == {200, 404}

\* The largest timeout the configuration can hold: elapsed is counted up to it
\* (every comparison of elapsed is against a timeout).
TimeoutValues ==
    {ParseInt(s) : s \in {t \in RUNNING_TIMEOUT_ENV \cup END_TIMEOUT_ENV : IsInt(t)}}
ElapsedCap == CHOOSE m \in TimeoutValues : \A v \in TimeoutValues : v <= m

\* The empty dict get_job returns for a non-200 response.
EmptyJob == <<>>

\* What a job-detail response shows of a job: a status of the skip list,
\* "running" with or without a trace artifact, or another status with
\* ("ready") or without ("unready") a trace artifact.
Kind(status, artifacts) ==
    IF status \in {"pending", "manual", "scheduled", "skipped", "created"} THEN "skip"
    ELSE IF status = "running" THEN
        (IF "trace" \in artifacts THEN "running+trace" ELSE "running")
    ELSE IF "trace" \in artifacts THEN "ready"
    ELSE "unready"

Init ==
    /\ pc = "module"
    /\ exit_code = 0
    /\ exit_cause = None
    /\ JOB_CHECK_INTERVAL_SECONDS = 0
    /\ RUNNING_JOB_TIMEOUT_SECONDS = 0
    /\ END_JOB_TIMEOUT_SECONDS = 0
    /\ project_name = None
    /\ project_status_code = 0
    /\ url = PageUrl(1)
    /\ pipeline_jobs = <<>>
    /\ job_index = 1
    /\ job_id = 0
    /\ job_name = None
    /\ job_stage = None
    /\ job_status = None
    /\ job_artifacts = {}
    /\ elapsed = 0
    /\ files = [f \in Filenames |-> NoFile]
    /\ page_requests = 0
    /\ page_status_code = 0
    /\ served = {}
    /\ next_offered = FALSE
    /\ written = {}
    /\ traces = {}
    /\ clean = TRUE
    /\ log = [t \in Tokens |-> <<>>]
    /\ run = 1
    /\ first_run = [files |-> [f \in Filenames |-> NoFile], jobs |-> 0,
                    config |-> <<0, 0, 0>>]
    /\ kind = None
    /\ latest = None
    /\ detail_non200 = FALSE
    /\ slept = FALSE
    /\ refetched = FALSE
    /\ status_refetches = 0
    /\ artifact_refetches = 0
    /\ unsettled = FALSE
    /\ artifact_wait = FALSE
    /\ trace_requested = FALSE
    /\ trace_non200 = FALSE
    /\ write_result = None
    /\ outcome = None

(* ------------------------------ helpers ------------------------------- *)

\* os._exit(code), or the interpreter ending on an uncaught exception (status 1).
Exit(code, cause) ==
    /\ pc' = "exit"
    /\ exit_code' = code
    /\ exit_cause' = cause

\* The locals of the loop body are reassigned before they are read again, and
\* each wait loop takes a new init: their old values are dropped.
DropLocals ==
    /\ job_name' = None
    /\ job_stage' = None
    /\ job_status' = None
    /\ job_artifacts' = {}
    /\ elapsed' = 0

\* `continue` / the end of the loop body: on to the next job of the list.
NextJob(how) ==
    /\ pc' = "for_job"
    /\ job_index' = job_index + 1
    /\ outcome' = how
    /\ latest' = None
    /\ artifact_refetches' = 0
    /\ DropLocals
    /\ UNCHANGED <<exit_code, exit_cause>>

\* An uncaught exception: the traceback is printed and the status is 1.
Crash(exception) ==
    /\ Exit(1, exception)
    /\ outcome' = exception
    /\ latest' = None
    /\ artifact_refetches' = 0
    /\ DropLocals
    /\ UNCHANGED job_index

\* get_job: the decoded body of a 200 response, {} otherwise.
GetJob(status_code, body) == IF status_code # 200 THEN EmptyJob ELSE body

\* job[key] raises KeyError when the dict has no such key.
KeyError(job, key) == key \notin DOMAIN job

\* A mutant of RunningTimedOut: > in place of >=.
RunningTimedOutStrict == elapsed > RUNNING_JOB_TIMEOUT_SECONDS

\* check_running_timeout: the timeout test of its loop.
RunningTimedOut == elapsed >= RUNNING_JOB_TIMEOUT_SECONDS

\* A mutant of RunningWaitSleep: the sleep lasts the check interval.
RunningWaitSleepInterval == JOB_CHECK_INTERVAL_SECONDS

\* check_running_timeout: the length of the sleep of one turn of its loop.
RunningWaitSleep == RUNNING_JOB_TIMEOUT_SECONDS

\* A mutant of EndTimedOut: > in place of >=.
EndTimedOutStrict == elapsed > END_JOB_TIMEOUT_SECONDS

\* A mutant of EndTimedOut: the comparison the wrong way round.
EndTimedOutInverted == elapsed <= END_JOB_TIMEOUT_SECONDS

\* check_end_timeout: the timeout test of its loop.
EndTimedOut == elapsed >= END_JOB_TIMEOUT_SECONDS

\* Whether a re-fetched job detail shows the job finished with its trace.
Settled(job) == job.status = "success" /\ HasTrace(job.artifacts)

\* A job-detail body of a 200 response: what the code reads of it.
JobDetails ==
    [status : Statuses, artifacts : SUBSET FileTypes, stage : RawStages, name : RawNames]

\* The body of an error response.
ErrorBodies == {[message |-> "404 Not Found"]}

\* The bodies a job-detail GET may return with a status code; a re-fetch
\* shows the stage and name the job had at its first fetch and a status of
\* RefetchStatuses.
DetailBodies(status_code) == IF status_code = 200 THEN JobDetails ELSE ErrorBodies
RefetchBodies(status_code) ==
    IF status_code = 200
    THEN [status : RefetchStatuses, artifacts : SUBSET FileTypes,
          stage : {job_stage}, name : {job_name}]
    ELSE ErrorBodies

\* The Link headers the server may send with page k: none, or entries with
\* distinct rels; rel="next" points to page k + 1 and is sent only while the
\* chain goes on.
LinkEntry(k, rel) ==
    [url |-> PageUrl(CASE rel = "next" -> k + 1 [] rel = "first" -> 1 [] OTHER -> MaxPages),
     rel |-> rel]
LinkHeaders(k) ==
    {NoLinkHeader} \cup
    { [i \in 1..Len(rels) |-> LinkEntry(k, rels[i])] :
        rels \in { r \in UNION {[1..n -> Rels] : n \in 1..Cardinality(Rels)} :
                     /\ \A i, j \in 1..Len(r) : i # j => r[i] # r[j]
                     /\ ("next" \in Range(r)) => k < MaxPages } }

OffersNext(link_header) ==
    \E i \in 1..Len(link_header) : link_header[i].rel = "next"

\* The bodies of one page: job ids not served yet, in any order.  The jobs of
\* the pipeline are 1..n for some n: the last page serves what is left of them.
Listable == IF run = 2 THEN 1..first_run.jobs ELSE JobIds
PageBodies(link_header) ==
    { b \in UNION {[1..n -> Listable \ served] : n \in 0..Cardinality(Listable \ served)} :
        /\ \A i, j \in 1..Len(b) : i # j => b[i] # b[j]
        /\ ~OffersNext(link_header) =>
              served \cup Range(b) = 1..Cardinality(served \cup Range(b)) }

\* The second run gets the environment and the API responses of the first,
\* which found every trace available: the configuration is the same and
\* valid, the project and every page and job detail are served, the
\* pages list the same jobs, a job whose trace was served shows a trace
\* artifact, the same file name and the same trace, any other job is skipped
\* or refused its trace again.
TraceOf(id) == {t \in traces : t.id = id}
SameTimings(interval, running, ending) ==
    run = 2 =>
        /\ IsInt(interval) /\ IsInt(running) /\ IsInt(ending)
        /\ <<ParseInt(interval), ParseInt(running), ParseInt(ending)>> = first_run.config
SameConfiguration(valid) == run = 2 => valid
SameProject(status_code) == run = 2 => status_code = 200
SamePageStatus(status_code) == run = 2 => status_code = 200
SamePage(status_code, link_header, body) ==
    run = 2 =>
        /\ ~OffersNext(link_header) => served \cup Range(body) = Listable
SameDetail(id, status_code, body) ==
    run = 2 =>
        /\ status_code = 200
        /\ IF TraceOf(id) = {}
           THEN Kind(body.status, body.artifacts) \in {"skip", "ready"}
           ELSE /\ Kind(body.status, body.artifacts) = "ready"
                /\ \E t \in TraceOf(id) :
                      t.filename = Filename(project_name, body.stage, body.name)
SameTrace(id, status_code, content) ==
    run = 2 =>
        IF TraceOf(id) = {}
        THEN status_code # 200
        ELSE status_code = 200 /\ \E t \in TraceOf(id) : t.content = content

(* ------------------------------ actions ------------------------------- *)

\* Module level: the int() parses, the logging configuration and the
\* mandatory-variable check, each ending the process with os._exit(1).
LoadConfiguration ==
    /\ pc = "module"
    /\ \E interval \in INTERVAL_ENV, running \in RUNNING_TIMEOUT_ENV,
          ending \in END_TIMEOUT_ENV :
       /\ SameTimings(interval, running, ending)
       /\ \E tz_ok \in BOOLEAN, loglevel_ok \in BOOLEAN,
             present \in SUBSET MandatoryNames :
        LET valid == /\ IsInt(interval) /\ IsInt(running) /\ IsInt(ending)
                     /\ tz_ok /\ loglevel_ok
                     /\ \A i \in 1..Len(MANDATORY_ENV_VARS) :
                           MANDATORY_ENV_VARS[i] \in present
        IN
        /\ SameConfiguration(valid)
        /\ log' = [t \in Tokens |->
                     ConfigurationLog(t, IsInt(interval), IsInt(running),
                                      IsInt(ending), tz_ok, loglevel_ok, present)]
        /\ IF valid
           THEN /\ JOB_CHECK_INTERVAL_SECONDS' = ParseInt(interval)
                /\ RUNNING_JOB_TIMEOUT_SECONDS' = ParseInt(running)
                /\ END_JOB_TIMEOUT_SECONDS' = ParseInt(ending)
                /\ pc' = "get_project"
                /\ UNCHANGED <<exit_code, exit_cause>>
           ELSE /\ Exit(1, "configuration")
                /\ UNCHANGED config
    /\ UNCHANGED <<project, listing, job_index, job_id, locals, files, written,
                   traces, clean, in_hand, runs>>

\* A mutant of GetProject: the status code of the response is not looked at.
GetProjectUnchecked ==
    /\ pc = "get_project"
    /\ \E status_code \in StatusCodes, name \in ProjectNames :
        /\ log' = [t \in Tokens |-> MainLog(t) \o GetProjectLog(t, 200)]
        /\ project_status_code' = status_code
        /\ project_name' = name
        /\ pc' = "get_pipeline_jobs"
        /\ UNCHANGED <<exit_code, exit_cause>>
    /\ UNCHANGED <<config, listing, job_index, job_id, locals, files, written,
                   traces, clean, in_hand, runs>>

\* main, __init__ and get_project: GET the project; non-200 ends the process.
GetProject ==
    /\ pc = "get_project"
    /\ \E status_code \in StatusCodes, name \in ProjectNames :
        /\ SameProject(status_code)
        /\ log' = [t \in Tokens |-> MainLog(t) \o GetProjectLog(t, status_code)]
        /\ project_status_code' = status_code
        /\ IF status_code # 200
           THEN /\ Exit(1, "project")
                /\ UNCHANGED project_name
           ELSE /\ project_name' = name
                /\ pc' = "get_pipeline_jobs"
                /\ UNCHANGED <<exit_code, exit_cause>>
    /\ UNCHANGED <<config, listing, job_index, job_id, locals, files, written,
                   traces, clean, in_hand, runs>>

\* A mutant of PipelineUnknown: the status code of a page is not looked at.
PipelineUnknownNever(status_code) == FALSE

\* get_pipeline_jobs, its status test: a non-200 page ends the process.
PipelineUnknown(status_code) == status_code # 200

\* get_pipeline_jobs, one turn of its loop: GET the page at url, extend the
\* list, follow the next link; with no next link, sort and return.
GetPipelineJobs ==
    /\ pc = "get_pipeline_jobs"
    /\ page_requests' = page_requests + 1
    /\ \E status_code \in StatusCodes, link_header \in LinkHeaders(url[1]) :
       /\ SamePageStatus(status_code)
       /\ \E body \in PageBodies(link_header) :
        /\ SamePage(status_code, link_header, body)
        /\ page_status_code' = status_code
        /\ log' = [t \in Tokens |->
                     GetPipelineJobsLog(t, status_code,
                         \/ link_header = NoLinkHeader
                         \/ ExtractNextPageUrl(link_header) = NoUrl)]
        /\ IF PipelineUnknown(status_code)
           THEN /\ Exit(1, "pipeline")
                /\ UNCHANGED <<url, pipeline_jobs, served, next_offered>>
           ELSE LET extended == pipeline_jobs \o body
                    next_page_url == IF link_header # NoLinkHeader
                                     THEN ExtractNextPageUrl(link_header)
                                     ELSE NoUrl
                IN /\ served' = served \cup Range(body)
                   /\ next_offered' = OffersNext(link_header)
                   /\ IF next_page_url # NoUrl
                      THEN /\ url' = next_page_url
                           /\ pipeline_jobs' = extended
                           /\ pc' = pc
                      ELSE /\ url' = url
                           /\ pipeline_jobs' = SortById(extended)
                           /\ pc' = "for_job"
                   /\ UNCHANGED <<exit_code, exit_cause>>
    /\ UNCHANGED <<config, project, job_index, job_id, locals, files, written,
                   traces, clean, in_hand, runs>>

\* The for loop is over: __init__ and main return, the process ends with 0.
Finish ==
    /\ pc = "for_job"
    /\ job_index > Len(pipeline_jobs)
    /\ Exit(0, "done")
    /\ log' = [t \in Tokens |-> <<>>]
    /\ UNCHANGED <<config, project, listing, job_index, job_id, locals, files,
                   written, traces, clean, in_hand, runs>>

\* download_pipeline_jobs_logs, the head of the loop body: fetch the job's
\* detail, read its fields (KeyError on the empty dict), apply the skip gate.
FetchJob ==
    /\ pc = "for_job"
    /\ job_index <= Len(pipeline_jobs)
    /\ job_id' = pipeline_jobs[job_index]
    /\ url' = NoUrl
    /\ page_requests' = 0
    /\ slept' = FALSE
    /\ refetched' = FALSE
    /\ status_refetches' = 0
    /\ unsettled' = FALSE
    /\ artifact_wait' = FALSE
    /\ trace_requested' = FALSE
    /\ trace_non200' = FALSE
    /\ write_result' = None
    /\ \E status_code \in StatusCodes : \E body \in DetailBodies(status_code) :
        LET job == GetJob(status_code, body) IN
        /\ SameDetail(job_id', status_code, body)
        /\ detail_non200' = (status_code # 200)
        /\ IF KeyError(job, "artifacts")
           THEN /\ Crash("KeyError")
                /\ kind' = None
                /\ clean' = FALSE
           ELSE /\ kind' = Kind(job.status, job.artifacts)
                /\ clean' = (clean /\ kind' \in {"skip", "ready"})
                /\ IF job.status \in SKIP_STATUSES
                   THEN NextJob("skipped")
                   ELSE /\ latest' = kind'
                        /\ artifact_refetches' = 0
                        /\ job_artifacts' = job.artifacts
                        /\ job_stage' = job.stage
                        /\ job_name' = job.name
                        /\ job_status' = job.status
                        /\ pc' = "check_running_timeout"
                        /\ elapsed' = 0
                        /\ outcome' = None
                        /\ UNCHANGED <<exit_code, exit_cause, job_index>>
        /\ log' = [t \in Tokens |->
                     GetJobLog(t, status_code)
                     \o (IF status_code = 200 /\ body.status \in SKIP_STATUSES
                         THEN SkipLog(t) ELSE <<>>)]
    /\ UNCHANGED <<config, project, pipeline_jobs, page_status_code, served,
                   next_offered, files, written, traces, runs>>

\* A mutant of RunningWaitArtifacts: the re-fetch refreshes the artifact list.
RunningWaitArtifactsFresh(job) == job.artifacts

\* check_running_timeout, its re-fetch: only ["status"] is read of the
\* response, the caller's artifact list stays the one of the first fetch.
RunningWaitArtifacts(job) == job_artifacts

\* check_running_timeout, one evaluation of its loop: leave it when the status
\* is not "running" (return False), abandon the job on timeout (return True),
\* else sleep for the running-job timeout and fetch the status again.  The
\* status is a parameter of the function, gone when it returns, and the
\* caller does not read its own job_status again.
CheckRunningTimeout ==
    /\ pc = "check_running_timeout"
    /\ IF job_status # "running"
       THEN /\ pc' = "check_end_timeout"
            /\ elapsed' = 0
            /\ job_status' = None
            /\ artifact_wait' = TRUE
            /\ log' = [t \in Tokens |-> <<>>]
            /\ UNCHANGED <<exit_code, exit_cause, job_index, job_name, job_stage,
                           job_artifacts, outcome, detail_non200,
                           refetched, status_refetches, artifact_refetches,
                           unsettled, slept, latest>>
       ELSE IF RunningTimedOut
       THEN /\ NextJob("running_timeout")
            /\ log' = [t \in Tokens |->
                         WaitLog(t, "ERROR",
                             "JOB=%s STAGE=%s PROJECT=%s RUNNING JOB TIMEOUT WAS REACHED !")]
            /\ UNCHANGED <<artifact_wait, detail_non200, refetched, status_refetches,
                           unsettled, slept>>
       ELSE \E status_code \in StatusCodes : \E body \in RefetchBodies(status_code) :
            LET job == GetJob(status_code, body) IN
            /\ slept' = TRUE
            /\ refetched' = TRUE
            /\ detail_non200' = (detail_non200 \/ status_code # 200)
            /\ status_refetches' = Min(status_refetches + 1, MaxCount)
            /\ UNCHANGED artifact_wait
            /\ IF KeyError(job, "status")
               THEN /\ Crash("KeyError")
                    /\ UNCHANGED unsettled
               ELSE /\ job_status' = job.status
                    /\ job_artifacts' = RunningWaitArtifacts(job)
                    /\ UNCHANGED artifact_refetches
                    /\ latest' = Kind(job.status, job.artifacts)
                    /\ unsettled' = (unsettled \/ ~Settled(job))
                    /\ \E overrun \in 0..MaxLatency :
                          elapsed' = Min(elapsed + RunningWaitSleep + overrun, ElapsedCap)
                    /\ UNCHANGED <<pc, exit_code, exit_cause, job_index, job_name,
                                   job_stage, outcome>>
            /\ log' = [t \in Tokens |->
                         WaitLog(t, "INFO", "JOB=%s STAGE=%s PROJECT=%s STILL RUNNING !")
                         \o GetJobLog(t, status_code)]
    /\ UNCHANGED <<config, project, listing, job_id, files, written, traces, clean,
                   runs, kind, trace_requested, trace_non200, write_result>>

\* A mutant of EndWaitSleep: a positive sleep is a second shorter.
EndWaitSleepShort ==
    IF JOB_CHECK_INTERVAL_SECONDS > 0 THEN JOB_CHECK_INTERVAL_SECONDS - 1
    ELSE JOB_CHECK_INTERVAL_SECONDS

\* check_end_timeout, its sleep: the check interval.
EndWaitSleep == JOB_CHECK_INTERVAL_SECONDS

\* check_end_timeout, one evaluation of its loop: leave it when a trace
\* artifact is listed (return False), abandon the job on timeout (return True),
\* else sleep for the check interval (time.sleep raises ValueError on a
\* negative length) and fetch the artifacts again.  The artifact list and the
\* clock are locals of the function, gone when it returns.
CheckEndTimeout ==
    /\ pc = "check_end_timeout"
    /\ IF HasTrace(job_artifacts)
       THEN /\ pc' = "download_logs"
            /\ job_artifacts' = {}
            /\ elapsed' = 0
            /\ log' = [t \in Tokens |-> <<>>]
            /\ UNCHANGED <<exit_code, exit_cause, job_index, job_name, job_stage,
                           job_status, outcome,
                           detail_non200, refetched, artifact_refetches, unsettled,
                           slept, latest>>
       ELSE IF EndTimedOut
       THEN /\ NextJob("end_timeout")
            /\ log' = [t \in Tokens |->
                         WaitLog(t, "ERROR",
                             "JOB=%s STAGE=%s PROJECT=%s END JOB TIMEOUT WAS REACHED !")]
            /\ UNCHANGED <<detail_non200, refetched, unsettled, slept>>
       ELSE IF JOB_CHECK_INTERVAL_SECONDS < 0
       THEN /\ Crash("ValueError")
            /\ log' = [t \in Tokens |->
                         WaitLog(t, "WARNING", "NO LOGS FOR JOB=%s STAGE=%s PROJECT=%s")]
            /\ UNCHANGED <<detail_non200, refetched, unsettled, slept>>
       ELSE \E status_code \in StatusCodes : \E body \in RefetchBodies(status_code) :
            LET job == GetJob(status_code, body) IN
            /\ slept' = TRUE
            /\ refetched' = TRUE
            /\ detail_non200' = (detail_non200 \/ status_code # 200)
            /\ IF KeyError(job, "artifacts")
               THEN /\ Crash("KeyError")
                    /\ UNCHANGED unsettled
               ELSE /\ job_artifacts' = job.artifacts
                    /\ artifact_refetches' = Min(artifact_refetches + 1, MaxCount)
                    /\ latest' = Kind(job.status, job.artifacts)
                    /\ unsettled' = (unsettled \/ ~Settled(job))
                    /\ \E overrun \in 0..MaxLatency :
                          elapsed' = Min(elapsed + EndWaitSleep + overrun, ElapsedCap)
                    /\ UNCHANGED <<pc, exit_code, exit_cause, job_index, job_name,
                                   job_stage, job_status, outcome>>
            /\ log' = [t \in Tokens |->
                         WaitLog(t, "WARNING", "NO LOGS FOR JOB=%s STAGE=%s PROJECT=%s")
                         \o GetJobLog(t, status_code)]
    /\ UNCHANGED <<config, project, listing, job_id, files, written, traces, clean,
                   runs, kind, status_refetches,
                   artifact_wait, trace_requested, trace_non200, write_result>>

\* A mutant of WriteBinary: the file is opened in mode "ab".
WriteAppending(old, content) == IF old = NoFile THEN content ELSE old \o content

\* open(..., "wb") and write: the file is created or truncated, then holds
\* the bytes written.
WriteBinary(old, content) == content

\* What open(..., "wb") and the write do: succeed, or raise.
WriteResults == {"ok", "FileNotFoundError", "PermissionError", "OSError"}

\* A mutant of WriteFaultHandled: PermissionError is logged without os._exit.
WriteFaultHandledNoExit(result) ==
    CASE result = "FileNotFoundError" -> "exit"
      [] result = "PermissionError" -> "continue"
      [] OTHER -> "uncaught"

\* download_logs, its except clauses: both end the process with os._exit(1);
\* any other exception is not caught.
WriteFaultHandled(result) ==
    CASE result = "FileNotFoundError" -> "exit"
      [] result = "PermissionError" -> "exit"
      [] OTHER -> "uncaught"

\* A mutant of TraceAvailable: the status code of the trace response is ignored.
TraceAvailableAlways(status_code) == TRUE

\* download_logs, its status test: only a 200 trace response is written.
TraceAvailable(status_code) == status_code = 200

\* download_logs: GET the trace; non-200 abandons the job; else the body is
\* written over the file of the job's filename.
DownloadLogs ==
    /\ pc = "download_logs"
    /\ trace_requested' = TRUE
    /\ \E status_code \in StatusCodes, content \in TraceBodies, result \in WriteResults :
        LET filename == Filename(project_name, job_stage, job_name) IN
        /\ SameTrace(job_id, status_code, content)
        /\ log' = [t \in Tokens |-> DownloadLogsLog(t, status_code, result)]
        /\ trace_non200' = (status_code # 200)
        /\ write_result' = IF TraceAvailable(status_code) THEN result ELSE None
        /\ traces' = IF status_code = 200 /\ run = 1
                      THEN traces \cup {[id |-> job_id, filename |-> filename,
                                          content |-> content]}
                      ELSE traces
        /\ IF ~TraceAvailable(status_code)
           THEN /\ NextJob("trace_failed")
                /\ UNCHANGED <<files, written>>
           ELSE IF result = "ok"
           THEN /\ files' = [files EXCEPT ![filename] = WriteBinary(@, content)]
                /\ written' = written \cup {job_id}
                /\ NextJob("written")
           ELSE IF WriteFaultHandled(result) = "continue"
           THEN /\ NextJob(result)
                /\ UNCHANGED <<files, written>>
           ELSE /\ Crash(result)
                /\ UNCHANGED <<files, written>>
    /\ UNCHANGED <<config, project, listing, job_id, kind, detail_non200,
                   refetched, status_refetches, unsettled, slept, artifact_wait,
                   clean, runs>>

Next ==
    \/ LoadConfiguration
    \/ GetProject
    \/ GetPipelineJobs
    \/ FetchJob
    \/ CheckRunningTimeout
    \/ CheckEndTimeout
    \/ DownloadLogs
    \/ Finish

Spec == Init /\ [][Next]_vars

\* The tool is run again on the same pipeline and the same directory, after
\* a first run that found every trace available and ended without fatal
\* error: a new process, the files as the first run left them.
Rerun ==
    /\ pc = "exit"
    /\ exit_code = 0
    /\ run = 1
    /\ clean
    /\ run' = 2
    /\ first_run' = [files |-> files, jobs |-> Len(pipeline_jobs),
                     config |-> config]
    /\ pc' = "module"
    /\ exit_cause' = None
    /\ JOB_CHECK_INTERVAL_SECONDS' = 0
    /\ RUNNING_JOB_TIMEOUT_SECONDS' = 0
    /\ END_JOB_TIMEOUT_SECONDS' = 0
    /\ project_name' = None
    /\ project_status_code' = 0
    /\ url' = PageUrl(1)
    /\ pipeline_jobs' = <<>>
    /\ job_index' = 1
    /\ job_id' = 0
    /\ page_requests' = 0
    /\ page_status_code' = 0
    /\ served' = {}
    /\ next_offered' = FALSE
    /\ written' = {}
    /\ kind' = None
    /\ latest' = None
    /\ detail_non200' = FALSE
    /\ slept' = FALSE
    /\ refetched' = FALSE
    /\ status_refetches' = 0
    /\ artifact_refetches' = 0
    /\ unsettled' = FALSE
    /\ artifact_wait' = FALSE
    /\ trace_requested' = FALSE
    /\ trace_non200' = FALSE
    /\ write_result' = None
    /\ outcome' = None
    /\ log' = [t \in Tokens |-> <<>>]
    /\ UNCHANGED <<exit_code, locals, files, traces, clean>>

NextTwice ==
    \/ Next
    \/ Rerun

SpecTwice == Init /\ [][NextTwice]_vars

\* One run that keeps going: the interpreter executes the next statement
\* whenever there is one, and every request and sleep returns.
SpecFair == Init /\ [][Next]_vars /\ WF_vars(Next)

(* ------------------------------- claims ------------------------------- *)

\* The job list has been returned by get_pipeline_jobs.
ListingDone ==
    /\ pc \notin {"module", "get_project", "get_pipeline_jobs"}
    /\ exit_cause \notin {"configuration", "project", "pipeline"}

\* The processing of the job in hand has ended (continue, return or crash).
JobDone == outcome # None

NoFileWritten == \A f \in Filenames : files[f] = NoFile

\* C1: whenever a job-detail GET of the job in hand returned a non-200 status,
\* the process has not ended with a non-zero status, no trace request was
\* issued and no file was written for that job.
C1_FailedFetchSkipsJob ==
    detail_non200 =>
        /\ ~(pc = "exit" /\ exit_code # 0)
        /\ ~trace_requested
        /\ job_id \notin written

\* C2: a job whose first job-detail response shows a status of the skip set is
\* left at once: no sleep, no re-fetch, no artifact-wait, no trace request and
\* no file for it.
C2_SkippedJobUntouched ==
    kind = "skip" =>
        /\ pc \in {"for_job", "exit"}
        /\ outcome = "skipped"
        /\ ~slept /\ ~refetched /\ ~artifact_wait
        /\ ~trace_requested
        /\ job_id \notin written

C2_Witness ==
    /\ kind = "skip"
    /\ outcome = "skipped"
    /\ pc = "for_job"
    /\ job_index <= Len(pipeline_jobs)

\* C3: when the job in hand is still "running" and the time elapsed in
\* running-wait has reached the running-job timeout, the next step abandons
\* it: the loop moves to the next job, artifact-wait is not entered, no trace
\* request is issued and nothing is written.
C3_RunningTimeoutAbandons ==
    [][ (/\ pc = "check_running_timeout"
         /\ job_status = "running"
         /\ elapsed >= RUNNING_JOB_TIMEOUT_SECONDS)
        => (/\ pc' = "for_job"
            /\ job_index' = job_index + 1
            /\ outcome' = "running_timeout"
            /\ ~artifact_wait'
            /\ ~trace_requested'
            /\ files' = files
            /\ written' = written) ]_vars

C3_Witness ==
    /\ outcome = "running_timeout"
    /\ refetched
    /\ pc = "for_job"
    /\ job_index <= Len(pipeline_jobs)

\* C4: when the artifact list of the job in hand holds no trace artifact and
\* the time elapsed in artifact-wait has reached the end-job timeout, the next
\* step abandons it: the loop moves to the next job, no trace request is
\* issued and nothing is written.
C4_EndTimeoutAbandons ==
    [][ (/\ pc = "check_end_timeout"
         /\ "trace" \notin job_artifacts
         /\ elapsed >= END_JOB_TIMEOUT_SECONDS)
        => (/\ pc' = "for_job"
            /\ job_index' = job_index + 1
            /\ outcome' = "end_timeout"
            /\ ~trace_requested'
            /\ files' = files
            /\ written' = written) ]_vars

C4_Witness ==
    /\ outcome = "end_timeout"
    /\ artifact_wait
    /\ refetched
    /\ pc = "for_job"
    /\ job_index <= Len(pipeline_jobs)

\* C5: once the chain of pages has been followed to its end, the list
\* get_pipeline_jobs returned holds exactly the jobs the pages served, each
\* once, in ascending order of id.
C5_ListIsSortedUnion ==
    ListingDone =>
        /\ ~next_offered
        /\ Range(pipeline_jobs) = served
        /\ Len(pipeline_jobs) = Cardinality(served)
        /\ \A i, j \in 1..Len(pipeline_jobs) :
              i < j => pipeline_jobs[i] <= pipeline_jobs[j]

C5_Witness ==
    /\ ListingDone
    /\ page_requests = MaxPages
    /\ Len(pipeline_jobs) = MaxJobId

\* C6: the process ends with 0 after the last job, and a non-zero status only
\* on a configuration error (a check interval time.sleep refuses counted as
\* one), an unknown project or pipeline, or a filesystem write fault.
C6_OnlyFatalFaultsExitNonZero ==
    pc = "exit" =>
        /\ exit_cause = "done" => (exit_code = 0 /\ job_index > Len(pipeline_jobs))
        /\ exit_code # 0 =>
              exit_cause \in {"configuration", "ValueError", "project", "pipeline",
                              "FileNotFoundError", "PermissionError", "OSError"}

\* C7: once the project GET has returned a non-200 status, the process has
\* ended with status 1 and no job-list request, no job-detail request, no
\* trace request and no file write has happened.
C7_UnknownProjectExitsFirst ==
    project_status_code \notin {0, 200} =>
        /\ pc = "exit"
        /\ exit_code = 1
        /\ page_requests = 0
        /\ job_id = 0
        /\ ~trace_requested
        /\ written = {}
        /\ NoFileWritten

C7_Witness ==
    /\ project_status_code = 404
    /\ pc = "exit"
    /\ exit_code = 1

\* C8: once writing the file of the job in hand has failed with
\* FileNotFoundError or PermissionError, the process has ended with status 1
\* on that job: no later job is fetched or written.
C8_WriteFaultIsFatal ==
    write_result \in {"FileNotFoundError", "PermissionError"} =>
        /\ pc = "exit"
        /\ exit_code = 1
        /\ job_id = pipeline_jobs[job_index]
        /\ job_id \notin written

C8_Witness ==
    /\ write_result = "PermissionError"
    /\ pc = "exit"
    /\ job_index < Len(pipeline_jobs)

\* C9: the step in which the trace GET of the job in hand returns a non-200
\* status writes nothing (the files are as they were) and moves on to the
\* next job of the list; the process does not end.
C9_FailedTraceWritesNothing ==
    [][ (pc = "download_logs" /\ trace_non200')
        => (/\ files' = files
            /\ written' = written
            /\ pc' = "for_job"
            /\ job_index' = job_index + 1) ]_vars

C9_Witness ==
    /\ trace_non200
    /\ outcome = "trace_failed"
    /\ pc = "for_job"
    /\ job_index <= Len(pipeline_jobs)

\* The kinds of job of C10, for the job in hand: (i) in the skip set, (ii) not
\* running and with a trace artifact at its first fetch, (iii) running at its
\* first fetch and shown finished with its trace by every re-fetch, the first
\* of which comes before the timeout only if the timeout is positive.
KindI == kind = "skip"
KindII == kind = "ready"
KindIII ==
    /\ kind \in {"running", "running+trace"}
    /\ RUNNING_JOB_TIMEOUT_SECONDS > 0
    /\ ~unsettled
    /\ ~detail_non200
TraceServedAndWritable == ~trace_non200 /\ write_result \in {None, "ok"}

\* The check interval is one time.sleep accepts (a negative one is counted as
\* a configuration error, as in C6).
SleepableInterval == JOB_CHECK_INTERVAL_SECONDS >= 0

\* C10 as stated, under a check interval time.sleep accepts: a job of kind (i)
\* gets no file; a finished job of kind (ii) or (iii) whose trace GET returned
\* 200 into a writable directory has its file; and the process does not end
\* with a non-zero status on such a job.
C10_ScenarioAsStated ==
    SleepableInterval =>
        /\ KindI => job_id \notin written
        /\ (JobDone /\ (KindII \/ KindIII) /\ TraceServedAndWritable)
              => job_id \in written
        /\ (pc = "exit" /\ ListingDone /\ (KindI \/ KindII \/ KindIII)
              /\ TraceServedAndWritable) => exit_code = 0

\* Kind (iii) as amended: a job that listed no trace artifact at its first
\* fetch goes through one sleep of artifact-wait before its artifacts are
\* fetched again, which a positive end-job timeout alone allows.
KindIIIAmended ==
    /\ KindIII
    /\ kind = "running" => END_JOB_TIMEOUT_SECONDS > 0

\* C10 (amended): as C10, with kind (iii) as amended.
C10_ScenarioAmended ==
    SleepableInterval =>
        /\ KindI => job_id \notin written
        /\ (JobDone /\ (KindII \/ KindIIIAmended) /\ TraceServedAndWritable)
              => job_id \in written
        /\ (pc = "exit" /\ ListingDone /\ (KindI \/ KindII \/ KindIIIAmended)
              /\ TraceServedAndWritable) => exit_code = 0

\* Two files written, the second for a job that was running at its first
\* fetch and had no trace artifact yet; the process has ended with 0.
C10_Witness ==
    /\ pc = "exit"
    /\ exit_code = 0
    /\ Cardinality(written) = 2
    /\ kind = "running"
    /\ KindIIIAmended
    /\ SleepableInterval
    /\ job_id \in written

\* The run has ended without fatal error.
EndedWithoutFatalError == pc = "exit" /\ exit_code = 0

OutputFiles == {f \in Filenames : files[f] # NoFile}

\* C11: at the end of a run without fatal error, the number of output files
\* equals the number of jobs whose trace GET returned 200, and the file built
\* for each such job holds the content of that job's trace response.
C11_OneFilePerDownloadedTrace ==
    EndedWithoutFatalError =>
        /\ Cardinality(OutputFiles) = Cardinality({t.id : t \in traces})
        /\ \A t \in traces : files[t.filename] = t.content

\* C12: when a second run on the same pipeline, with the API responses of a
\* first run that found every trace available, has ended without fatal error,
\* the output directory holds the files the first run left, with the same
\* contents: every write replaced the content of the file of that name.
C12_SecondRunLeavesSameFiles ==
    (run = 2 /\ EndedWithoutFatalError) => files = first_run.files

\* A second run has ended after writing the two files the first run wrote.
C12_Witness ==
    /\ run = 2
    /\ EndedWithoutFatalError
    /\ Cardinality(written) = 2
    /\ Cardinality(OutputFiles) = 2
    /\ files = first_run.files

\* A record shows a value: it is its format string or one of its arguments.
Shows(record, value) ==
    \/ record.format = value
    \/ \E i \in 1..Len(record.args) : record.args[i] = value

\* C13: two runs that differ only in the value of CI_API_TOKEN and get the
\* same API responses emit the same records at every step, and no record of
\* a run, at any level, shows the token of that run.
C13_TokenNeverLogged ==
    /\ \A t1, t2 \in Tokens : log[t1] = log[t2]
    /\ \A t \in Tokens : \A i \in 1..Len(log[t]) : ~Shows(log[t][i], t)

\* main has logged the values of the other mandatory variables, and the
\* project was found.
C13_Witness ==
    /\ pc = "get_pipeline_jobs"
    /\ \A t \in Tokens :
          /\ \E i \in 1..Len(log[t]) :
                log[t][i] = Record("INFO", "%s=%s",
                                   <<"CI_API_V4_URL", Environ(t)["CI_API_V4_URL"]>>)
          /\ \E i \in 1..Len(log[t]) : log[t][i].format = "GITLAB_PROJECT_NAME=%s"

\* C14: the loop takes the listed jobs one at a time in ascending order of
\* id, whatever order the pages listed them in: a step that takes a job in
\* hand comes after the listing has returned, takes a greater id than any
\* taken before and leaves no smaller listed id untaken; a trace response or
\* a file write is for the job in hand; and no job-list request is issued
\* once a job detail has been requested.
C14_JobsInAscendingOrder ==
    [][ /\ job_id' # job_id =>
              /\ ListingDone
              /\ pc = "for_job"
              /\ job_id' > job_id
              /\ \A i \in Range(pipeline_jobs) : i < job_id' => i <= job_id
        /\ \A t \in traces' \ traces : t.id = job_id
        /\ written' \ written \subseteq {job_id}
        /\ page_requests' > page_requests => (job_id = 0 /\ job_id' = 0) ]_vars

\* The last job of the list is in hand after an earlier one was written.
C14_Witness ==
    /\ job_id = MaxJobId
    /\ 1 \in written
    /\ pc = "download_logs"

\* C15 as stated: when a trace GET is about to be issued for the job in hand,
\* its latest job-detail response shows a trace artifact and a status that is
\* neither "running" nor in the skip list.
C15_TraceGetAsStated == pc = "download_logs" => latest = "ready"

\* C15 (amended): when a trace GET is about to be issued for the job in hand,
\* the artifact list the program read last (at the first fetch or at the last
\* re-fetch of artifact-wait) holds a trace artifact, the status it read last
\* (at the first fetch or at the last re-fetch of running-wait) is not
\* "running", and the status of the first fetch is not in the skip list.
\* The step that leaves artifact-wait for the trace GET reads a list with a
\* trace artifact; the step that leaves running-wait for artifact-wait reads a
\* status other than "running"; no other step leads to either.
C15_TraceGetAmended ==
    [][ /\ (pc' = "download_logs" /\ pc # "download_logs") =>
              /\ pc = "check_end_timeout"
              /\ "trace" \in job_artifacts
              /\ kind # "skip"
        /\ (pc' = "check_end_timeout" /\ pc # "check_end_timeout") =>
              /\ pc = "check_running_timeout"
              /\ job_status # "running"
              /\ kind # "skip" ]_vars

\* A trace GET is about to be issued for a job whose first fetch showed it
\* running with a trace artifact and whose re-fetch in running-wait, the
\* latest response, showed a status of the skip list.
C15_Witness ==
    /\ pc = "download_logs"
    /\ kind = "running+trace"
    /\ status_refetches = 1
    /\ artifact_refetches = 0
    /\ latest = "skip"

\* C16: once a job-list GET (of the first page or of a later one) has
\* returned a non-200 status, the process has ended with status 1, the jobs
\* accumulated so far are left unprocessed, and no job-detail request, trace
\* request or file write has happened.
C16_UnknownPipelineIsFatal ==
    page_status_code \notin {0, 200} =>
        /\ pc = "exit"
        /\ exit_code = 1
        /\ job_index = 1
        /\ job_id = 0
        /\ kind = None
        /\ ~trace_requested
        /\ written = {}
        /\ traces = {}
        /\ NoFileWritten

\* A later page returned 404 after an earlier page had listed jobs.
C16_Witness ==
    /\ page_status_code = 404
    /\ page_requests > 1
    /\ pipeline_jobs # <<>>
    /\ pc = "exit"
    /\ exit_code = 1

\* C17: while get_pipeline_jobs is in its loop, every response so far carried
\* a next link and the k-th request is for the k-th page of the chain (each
\* page once, in chain order); when it has returned, the last response
\* carried no next link and the number of requests issued is the number of
\* pages of the chain.
C17_OneRequestPerPage ==
    /\ pc = "get_pipeline_jobs" =>
          /\ url = PageUrl(page_requests + 1)
          /\ page_requests > 0 => (next_offered /\ page_status_code = 200)
    /\ (ListingDone /\ page_requests > 0) =>
          /\ ~next_offered
          /\ url = PageUrl(page_requests)
          /\ page_status_code = 200

\* get_pipeline_jobs has returned after following a chain of MaxPages pages.
C17_Witness ==
    /\ ListingDone
    /\ pc = "for_job"
    /\ page_requests = MaxPages
    /\ url = PageUrl(MaxPages)
    /\ ~next_offered

\* The first job-detail response of the job in hand showed it running.
RunningAtFirstFetch == kind \in {"running", "running+trace"}

\* C18: the status of the job in hand is re-fetched at most once in
\* running-wait; a job still "running" at that re-fetch has reached the
\* running-job timeout at the next check; a job that was running at its first
\* fetch is in artifact-wait only after one re-fetch that showed another
\* status, under a positive running-job timeout; and with a running-job
\* timeout of 0 it is abandoned with no sleep and no re-fetch.
C18_AtMostOneStatusRefetch ==
    /\ status_refetches <= 1
    /\ (pc = "check_running_timeout" /\ status_refetches = 1 /\ job_status = "running")
          => elapsed >= RUNNING_JOB_TIMEOUT_SECONDS
    /\ (RunningAtFirstFetch /\ pc \in {"check_end_timeout", "download_logs"}) =>
          /\ status_refetches = 1
          /\ artifact_refetches = 0 => latest \notin {"running", "running+trace"}
          /\ RUNNING_JOB_TIMEOUT_SECONDS > 0
    /\ (RunningAtFirstFetch /\ artifact_wait) =>
          (status_refetches = 1 /\ RUNNING_JOB_TIMEOUT_SECONDS > 0)
    /\ (RunningAtFirstFetch /\ RUNNING_JOB_TIMEOUT_SECONDS = 0) =>
          /\ status_refetches = 0
          /\ ~slept /\ ~refetched /\ ~artifact_wait
          /\ JobDone => outcome = "running_timeout"

\* A job still running at its re-fetch is at the next check of running-wait.
C18_Witness ==
    /\ pc = "check_running_timeout"
    /\ status_refetches = 1
    /\ job_status = "running"
    /\ RUNNING_JOB_TIMEOUT_SECONDS > 0

\* C19: the first check of artifact-wait reads the artifact list of the first
\* fetch (it shows a trace exactly when the first fetch did); a job that was
\* "running" without a trace artifact at its first fetch is at its trace GET
\* only after a sleep and at least one artifact re-fetch; every artifact
\* re-fetch follows a sleep of the check interval; and a job is skipped only
\* on the status of its first fetch, with no sleep and no re-fetch before.
C19_FirstCheckUsesInitialDetail ==
    /\ (pc = "check_end_timeout" /\ artifact_refetches = 0) =>
          ("trace" \in job_artifacts <=> kind \in {"ready", "running+trace"})
    /\ (pc = "download_logs" /\ kind = "running") =>
          (artifact_refetches >= 1 /\ slept /\ refetched)
    /\ pc = "check_end_timeout" =>
          elapsed >= Min(artifact_refetches * JOB_CHECK_INTERVAL_SECONDS, ElapsedCap)
    /\ artifact_refetches >= 1 => JOB_CHECK_INTERVAL_SECONDS >= 0
    /\ outcome = "skipped" =>
          (kind = "skip" /\ ~slept /\ ~refetched /\ status_refetches = 0)
    /\ (kind = "skip" /\ JobDone) => outcome = "skipped"

\* A job running without a trace artifact at its first fetch is at the first
\* check of artifact-wait, its re-fetch in running-wait having shown it
\* finished with a trace artifact.
C19_Witness ==
    /\ pc = "check_end_timeout"
    /\ kind = "running"
    /\ artifact_refetches = 0
    /\ latest = "ready"
    /\ "trace" \notin job_artifacts

\* The check interval and both timeouts are positive.
PositiveTimings ==
    /\ JOB_CHECK_INTERVAL_SECONDS > 0
    /\ RUNNING_JOB_TIMEOUT_SECONDS > 0
    /\ END_JOB_TIMEOUT_SECONDS > 0

\* ceil(a / b) for b > 0.
Ceil(a, b) == (a + b - 1) \div b

\* C20: with a positive check interval and positive timeouts, the job in hand
\* has had at most one status re-fetch and at most
\* ceil(end-job timeout / check interval) artifact re-fetches, and the run
\* reaches its exit (the end of the list or a fatal exit; a job-detail
\* response other than 200 is one), whatever the server reports.
C20_WaitsAreBoundedAndRunEnds ==
    /\ [](PositiveTimings =>
            /\ status_refetches <= 1
            /\ artifact_refetches <= Ceil(END_JOB_TIMEOUT_SECONDS,
                                          JOB_CHECK_INTERVAL_SECONDS))
    /\ (PositiveTimings ~> pc = "exit")

\* Under positive timings, artifact-wait is at a check after as many
\* re-fetches as the bound allows, each served with status 200, and still
\* without a trace artifact.
C20_Witness ==
    /\ PositiveTimings
    /\ pc = "check_end_timeout"
    /\ ~detail_non200
    /\ "trace" \notin job_artifacts
    /\ artifact_refetches = Ceil(END_JOB_TIMEOUT_SECONDS, JOB_CHECK_INTERVAL_SECONDS)

============================================================================
